---- MODULE Spec2Model ----
(***************************************************************************)
(* Packster mapping engine: registry lookup, heuristic / pattern /         *)
(* category matchers, candidate validation, decision thresholds, the       *)
(* mapper's per-item pipeline, the statistics reduction, registry loading  *)
(* and the stages of the generate command.                                 *)
(*                                                                         *)
(* Confidences are floats in the source.  A confidence c is modelled by    *)
(* the integer 1000 * c; halving a float is exact, and every confidence    *)
(* that gets halved here is a multiple of 0.002, so its half is integral.  *)
(* Optional values are sequences of length 0 (None) or 1.                  *)
(***************************************************************************)
EXTENDS Integers, Sequences, FiniteSets, TLC

\* ------------------------------------------------------------------------
\* Bounds of the model
\* ------------------------------------------------------------------------
MaxItems == 2
MaxCands == 2
MaxResults == 2

\* ------------------------------------------------------------------------
\* Strings (Python str operations, on TLC strings)
\* ------------------------------------------------------------------------
None == <<>>
Some(x) == <<x>>

StartsWith(s, p) == Len(s) >= Len(p) /\ SubSeq(s, 1, Len(p)) = p

EndsWith(s, p) == Len(s) >= Len(p) /\ SubSeq(s, Len(s) - Len(p) + 1, Len(s)) = p

\* k in s
Contains(s, k) == \E i \in 1..(Len(s) - Len(k) + 1) : SubSeq(s, i, i + Len(k) - 1) = k

UpperAlpha == "ABCDEFGHIJKLMNOPQRSTUVWXYZ"
LowerAlpha == "abcdefghijklmnopqrstuvwxyz"

\* the table of str.lower() on the ASCII letters
LowerMap ==
    [c \in {SubSeq(UpperAlpha, i, i) : i \in 1..26} |->
        LET i == CHOOSE j \in 1..26 : SubSeq(UpperAlpha, j, j) = c
        IN  SubSeq(LowerAlpha, i, i)]

LowerChar(c) == IF c \in DOMAIN LowerMap THEN LowerMap[c] ELSE c

RECURSIVE Lower(_)
Lower(s) == IF Len(s) = 0 THEN ""
            ELSE LowerChar(SubSeq(s, 1, 1)) \o Lower(SubSeq(s, 2, Len(s)))

IsDigit(c) == c \in {"0", "1", "2", "3", "4", "5", "6", "7", "8", "9"}

AllDigits(s) == Len(s) >= 1 /\ \A i \in 1..Len(s) : IsDigit(SubSeq(s, i, i))

\* \d+\.\d+ over the whole of t
IsVersionToken(t) ==
    \E j \in 1..Len(t) :
        /\ SubSeq(t, j, j) = "."
        /\ AllDigits(SubSeq(t, 1, j - 1))
        /\ AllDigits(SubSeq(t, j + 1, Len(t)))

\* ------------------------------------------------------------------------
\* Confidence scale, thresholds, decisions
\* ------------------------------------------------------------------------
ConfScale == 1000
ThresholdAuto == 900
ThresholdVerify == 600

AUTO == "auto"
VERIFY == "verify"
MANUAL == "manual"
SKIP == "skip"
Decisions == {AUTO, VERIFY, MANUAL, SKIP}

Candidate(pm, name, conf, reason, post) ==
    [target_pm |-> pm, target_name |-> name, kind |-> None, confidence |-> conf,
     reason |-> reason, post_install |-> post]

\* A (target_pm, target_name, confidence, reason) tuple of the matchers
Match(pm, name, conf, reason) ==
    [target_pm |-> pm, target_name |-> name, confidence |-> conf, reason |-> reason]

\* ------------------------------------------------------------------------
\* Heuristic rules
\* ------------------------------------------------------------------------
HeuristicRule(pat, pm, name, conf, reason, rx) ==
    [pattern |-> pat, target_pm |-> pm, target_name |-> name, confidence |-> conf,
     reason |-> reason, is_regex |-> rx]

DEFAULT_HEURISTICS == <<
    HeuristicRule("fd-find", "brew", "fd", 900, "fd-find is the Ubuntu package name for fd", FALSE),
    HeuristicRule("python3-pip", "brew", "python@3.12", 600, "python3-pip suggests Python 3 installation", FALSE),
    HeuristicRule("gnome-terminal", "cask", "iterm2", 800, "GUI terminal on macOS", FALSE),
    HeuristicRule("docker.io", "cask", "docker", 850, "Docker Desktop on macOS", FALSE),
    HeuristicRule("nodejs", "brew", "node", 900, "nodejs is the Ubuntu package name for node", FALSE),
    HeuristicRule("python3", "brew", "python@3.12", 800, "Python 3 on macOS", FALSE),
    HeuristicRule("^lib(.+)$", "brew", "\\1", 300, "Library packages often have lib prefix", TRUE),
    HeuristicRule("^(.+)-dev$", "brew", "\\1", 400, "Development packages often have -dev suffix", TRUE),
    HeuristicRule("^(.+)-dbg$", "brew", "\\1", 300, "Debug packages often have -dbg suffix", TRUE),
    HeuristicRule("^(.+)-doc$", "brew", "\\1", 200, "Documentation packages often have -doc suffix", TRUE) >>

\* The regular expressions of the rule set have the two shapes ^lit(.+)$ and
\* ^(.+)lit$ ; names hold no newline, so "." and "$" have their plain meaning.
RegexIsPrefixForm(pat) == StartsWith(pat, "^") /\ EndsWith(pat, "(.+)$")
RegexLiteral(pat) ==
    IF RegexIsPrefixForm(pat) THEN SubSeq(pat, 2, Len(pat) - 5)
    ELSE SubSeq(pat, 6, Len(pat) - 1)

\* re.match(pattern, s) is not None
ReMatch(pat, s) ==
    LET lit == RegexLiteral(pat) IN
    /\ Len(s) > Len(lit)
    /\ IF RegexIsPrefixForm(pat) THEN StartsWith(s, lit) ELSE EndsWith(s, lit)

\* re.sub(pattern, "\\1", s) for a pattern that matches s: capture group 1
ReSubGroup1(pat, s) ==
    LET lit == RegexLiteral(pat) IN
    IF RegexIsPrefixForm(pat) THEN SubSeq(s, Len(lit) + 1, Len(s))
    ELSE SubSeq(s, 1, Len(s) - Len(lit))

\* mutant: the sort is not stable (equal confidences come out in reverse order)
RECURSIVE InsertByConf_Unstable(_, _)
InsertByConf_Unstable(sorted, m) ==
    IF sorted = <<>> THEN <<m>>
    ELSE IF Head(sorted).confidence > m.confidence
         THEN <<Head(sorted)>> \o InsertByConf_Unstable(Tail(sorted), m)
         ELSE <<m>> \o sorted

\* list.sort(key=confidence, reverse=True): stable, descending
RECURSIVE InsertByConf(_, _)
InsertByConf(sorted, m) ==
    IF sorted = <<>> THEN <<m>>
    ELSE IF Head(sorted).confidence >= m.confidence
         THEN <<Head(sorted)>> \o InsertByConf(Tail(sorted), m)
         ELSE <<m>> \o sorted

RECURSIVE SortByConfDesc(_)
SortByConfDesc(ms) ==
    IF ms = <<>> THEN <<>>
    ELSE InsertByConf(SortByConfDesc(SubSeq(ms, 1, Len(ms) - 1)), ms[Len(ms)])

RuleMatches(rule, source_name) ==
    IF rule.is_regex THEN ReMatch(rule.pattern, source_name)
    ELSE source_name = rule.pattern

RuleMatch(rule, source_name) ==
    Match(rule.target_pm,
          IF rule.is_regex THEN ReSubGroup1(rule.pattern, source_name)
          ELSE rule.target_name,
          rule.confidence, rule.reason)

RECURSIVE CollectMatches(_, _)
CollectMatches(rules, source_name) ==
    IF rules = <<>> THEN <<>>
    ELSE (IF RuleMatches(Head(rules), source_name)
          THEN <<RuleMatch(Head(rules), source_name)>> ELSE <<>>)
         \o CollectMatches(Tail(rules), source_name)

apply_heuristics(source_name, rules) == SortByConfDesc(CollectMatches(rules, source_name))


\* ------------------------------------------------------------------------
\* Pattern and category matchers
\* ------------------------------------------------------------------------
\* re.match(r"^(.+)-(\d+\.\d+)$", s): the version token holds no hyphen, so the
\* hyphen before it is the last one and group 1 is everything before it.
VersionSplits(s) ==
    {i \in 2..Len(s) : SubSeq(s, i, i) = "-" /\ IsVersionToken(SubSeq(s, i + 1, Len(s)))}

apply_common_patterns(source_name) ==
    (IF StartsWith(source_name, "python3-")
     THEN LET base_name == SubSeq(source_name, 9, Len(source_name))
          IN  <<Match("brew", base_name, 700, "Python package: " \o base_name)>>
     ELSE <<>>)
    \o
    (IF EndsWith(source_name, "-bin")
     THEN LET base_name == SubSeq(source_name, 1, Len(source_name) - 4)
          IN  <<Match("brew", base_name, 600, "Binary package: " \o base_name)>>
     ELSE <<>>)
    \o
    (IF VersionSplits(source_name) # {}
     THEN LET i == CHOOSE j \in VersionSplits(source_name) : TRUE
              base_name == SubSeq(source_name, 1, i - 1)
          IN  <<Match("brew", base_name, 500, "Versioned package: " \o base_name)>>
     ELSE <<>>)

ContainsAny(s, keys) == \E k \in keys : Contains(s, k)

apply_category_based_mapping(source_name, category) ==
    LET n == Lower(source_name) IN
    IF category = Some("databases") \/ ContainsAny(n, {"postgres", "mysql", "sqlite", "redis"})
    THEN IF Contains(n, "postgres") THEN <<Match("brew", "postgresql", 800, "PostgreSQL database")>>
         ELSE IF Contains(n, "mysql") THEN <<Match("brew", "mysql", 800, "MySQL database")>>
         ELSE IF Contains(n, "sqlite") THEN <<Match("brew", "sqlite", 800, "SQLite database")>>
         ELSE IF Contains(n, "redis") THEN <<Match("brew", "redis", 800, "Redis database")>>
         ELSE <<>>
    ELSE IF category = Some("development") \/ ContainsAny(n, {"git", "vim", "tmux", "htop"})
    THEN IF Contains(n, "git") THEN <<Match("brew", "git", 900, "Git version control")>>
         ELSE IF Contains(n, "vim") THEN <<Match("brew", "vim", 900, "Vim editor")>>
         ELSE IF Contains(n, "tmux") THEN <<Match("brew", "tmux", 900, "Tmux terminal multiplexer")>>
         ELSE IF Contains(n, "htop") THEN <<Match("brew", "htop", 900, "Htop process viewer")>>
         ELSE <<>>
    ELSE IF category = Some("utilities") \/ ContainsAny(n, {"curl", "wget", "jq", "ripgrep"})
    THEN IF Contains(n, "curl") THEN <<Match("brew", "curl", 900, "cURL HTTP client")>>
         ELSE IF Contains(n, "wget") THEN <<Match("brew", "wget", 900, "Wget download utility")>>
         ELSE IF Contains(n, "jq") THEN <<Match("brew", "jq", 900, "jq JSON processor")>>
         ELSE IF Contains(n, "ripgrep") THEN <<Match("brew", "ripgrep", 900, "ripgrep search tool")>>
         ELSE <<>>
    ELSE <<>>

\* ------------------------------------------------------------------------
\* Registry
\* ------------------------------------------------------------------------
RegistryMapping(source_name, pm, name, conf, reason, post) ==
    [source_name |-> source_name, target_pm |-> pm, target_name |-> name,
     confidence |-> conf, reason |-> reason, post_install |-> post]

\* mappings: the dict in insertion order, as a sequence of [key, mapping];
\* aliases: a function alias -> canonical name
Registry(name, mappings, aliases) ==
    [name |-> name, mappings |-> mappings, aliases |-> aliases]

\* registry.mappings[key] = mapping
Entry(key, pm, name, conf, reason, post) ==
    [key |-> key, mapping |-> RegistryMapping(key, pm, name, conf, reason, post)]

MappingKeys(reg) == {reg.mappings[i].key : i \in 1..Len(reg.mappings)}

MappingAt(reg, key) ==
    reg.mappings[CHOOSE i \in 1..Len(reg.mappings) : reg.mappings[i].key = key].mapping

CaseInsensitiveHits(reg, source_name) ==
    {i \in 1..Len(reg.mappings) : Lower(reg.mappings[i].key) = Lower(source_name)}

Min(S) == CHOOSE m \in S : \A k \in S : m <= k

\* mutant: the alias map is consulted before the keys
find_mapping_AliasFirst(reg, source_name) ==
    IF source_name \in DOMAIN reg.aliases /\ reg.aliases[source_name] \in MappingKeys(reg)
    THEN Some(MappingAt(reg, reg.aliases[source_name]))
    ELSE IF source_name \in MappingKeys(reg)
    THEN Some(MappingAt(reg, source_name))
    ELSE IF CaseInsensitiveHits(reg, source_name) # {}
    THEN Some(reg.mappings[Min(CaseInsensitiveHits(reg, source_name))].mapping)
    ELSE None

find_mapping(reg, source_name) ==
    IF source_name \in MappingKeys(reg)
    THEN Some(MappingAt(reg, source_name))
    ELSE IF source_name \in DOMAIN reg.aliases /\ reg.aliases[source_name] \in MappingKeys(reg)
    THEN Some(MappingAt(reg, reg.aliases[source_name]))
    ELSE IF CaseInsensitiveHits(reg, source_name) # {}
    THEN Some(reg.mappings[Min(CaseInsensitiveHits(reg, source_name))].mapping)
    ELSE None

\* ------------------------------------------------------------------------
\* Data of the pipeline
\* ------------------------------------------------------------------------
NormalizedItem(pm, name, category) ==
    [source_pm |-> pm, source_name |-> name, version |-> None, category |-> category,
     meta |-> <<>>]

MappingResult(source, candidate, decision) ==
    [source |-> source, candidate |-> candidate, decision |-> decision, notes |-> None]

CandidateOfMatch(m) == Candidate(m.target_pm, m.target_name, m.confidence, m.reason, <<>>)

RECURSIVE CandidatesOfMatches(_)
CandidatesOfMatches(ms) ==
    IF ms = <<>> THEN <<>>
    ELSE <<CandidateOfMatch(Head(ms))>> \o CandidatesOfMatches(Tail(ms))

\* ------------------------------------------------------------------------
\* State
\* ------------------------------------------------------------------------
VARIABLES
    op,           \* the entry point under way: "map", "validate", "stats", "decide",
                  \* "find", "heur", "load" or "generate"
    pc,           \* position inside it
    registry,     \* PackageMapper.registry
    heuristics,   \* the module-level DEFAULT_HEURISTICS list
    verify,       \* PackageMapper.verify
    brewIndex,    \* Homebrew's answer: the <<namespace, name>> pairs that exist
    packages,     \* the argument of map_packages
    idx,          \* 1-based position of the loop of the entry point under way
    candidates,   \* map_single_package's local list (kept until the next item starts)
    results,      \* map_packages' result list
    run,          \* how many times map_packages was called on these arguments
    prevResults,  \* what the previous call returned
    vIn,          \* the argument of validate_brew_candidates
    validated,    \* its result list
    sIn,          \* the argument of get_mapping_statistics
    stats,        \* its stats dict
    cliFault,     \* how the brew subprocess fails: "none", "error", "timeout", "raise"
    checks,       \* the existence checks called for the item (or list) under way
    fnArg,        \* the arguments of a direct call (_make_decision, find_mapping,
                  \* apply_heuristics, load_registry) or of the generate command
    fnRet,        \* what that call returned
    stagesRun,    \* the stages the generate command has entered, in order
    exitCode      \* the exit code of the generate command, once it has exited

vars == <<op, pc, registry, heuristics, verify, brewIndex, packages, idx, candidates,
          results, run, prevResults, vIn, validated, sIn, stats, cliFault, checks,
          fnArg, fnRet, stagesRun, exitCode>>

mapVars == <<registry, heuristics, verify, packages, candidates, results, run, prevResults>>
validateVars == <<vIn, validated>>
statsVars == <<sIn, stats>>
callVars == <<fnArg, fnRet>>
genVars == <<stagesRun, exitCode>>
otherVars == <<cliFault, callVars, genVars>>

\* ------------------------------------------------------------------------
\* Existence checks and validation
\* ------------------------------------------------------------------------
\* str.strip, for the blanks a line of output can carry
RECURSIVE StripLeft(_)
StripLeft(s) == IF Len(s) > 0 /\ SubSeq(s, 1, 1) = " " THEN StripLeft(SubSeq(s, 2, Len(s))) ELSE s

RECURSIVE StripRight(_)
StripRight(s) ==
    IF Len(s) > 0 /\ SubSeq(s, Len(s), Len(s)) = " " THEN StripRight(SubSeq(s, 1, Len(s) - 1))
    ELSE s

Strip(s) == StripRight(StripLeft(s))

CommandResult(raised, exit_code, stdout) ==
    [raised |-> raised, exit_code |-> exit_code, stdout |-> stdout]

\* what brew answers when it runs: info exits 0 for a name of the index; search
\* prints the names of the index that contain the query, one per line (stdout is
\* kept as the set of its lines), and exits 1 when there is none
BrewAnswer(kind, verb, name) ==
    IF verb = "info"
    THEN IF <<kind, name>> \in brewIndex THEN CommandResult(FALSE, 0, {name \o ": stable"})
         ELSE CommandResult(FALSE, 1, {})
    ELSE LET lines == {t[2] : t \in {u \in brewIndex : u[1] = kind /\ Contains(u[2], name)}}
         IN  CommandResult(FALSE, IF lines = {} THEN 1 ELSE 0, lines)

\* detect.run_command_safe: a timeout or a process error gives exit code -1 and
\* no output; "raise" is a call that raises instead of returning
run_command_safe(kind, verb, name) ==
    IF cliFault = "raise" THEN CommandResult(TRUE, -1, {})
    ELSE IF cliFault \in {"error", "timeout"} THEN CommandResult(FALSE, -1, {})
    ELSE BrewAnswer(kind, verb, name)

\* mutant: a check that cannot be carried out reports that the package exists
ExistsIn_FailOpen(kind, package_name) ==
    LET info == run_command_safe(kind, "info", package_name) IN
    IF info.raised \/ info.exit_code = -1 THEN TRUE
    ELSE IF info.exit_code = 0 THEN TRUE
    ELSE LET search == run_command_safe(kind, "search", package_name) IN
         IF search.raised THEN TRUE
         ELSE /\ search.exit_code = 0
              /\ search.stdout # {}
              /\ \E line \in search.stdout : Strip(line) = package_name

\* mutant: a search line that contains the name counts as the name
ExistsFrom_Substring(info, search, package_name) ==
    IF info.raised THEN FALSE
    ELSE IF info.exit_code = 0 THEN TRUE
    ELSE IF search.raised THEN FALSE
    ELSE /\ search.exit_code = 0
         /\ search.stdout # {}
         /\ \E line \in search.stdout : Contains(Strip(line), package_name)

\* the body shared by exists_in_brew and exists_in_cask, given what the info
\* command and (if it comes to that) the search command answer: info, then
\* search for an exact line; an exception anywhere gives False
ExistsFrom(info, search, package_name) ==
    IF info.raised THEN FALSE
    ELSE IF info.exit_code = 0 THEN TRUE
    ELSE IF search.raised THEN FALSE
    ELSE /\ search.exit_code = 0
         /\ search.stdout # {}
         /\ \E line \in search.stdout : Strip(line) = package_name

\* the commands the body runs, in order
CommandsRun(info, search) ==
    IF info.raised \/ info.exit_code = 0 THEN <<"info">> ELSE <<"info", "search">>

ExistsIn(kind, package_name) ==
    ExistsFrom(run_command_safe(kind, "info", package_name),
               run_command_safe(kind, "search", package_name), package_name)

exists_in_brew(package_name) == ExistsIn("brew", package_name)

exists_in_cask(package_name) == ExistsIn("cask", package_name)

\* the existence checks _validate_candidate (and the validator's loop) calls for a
\* candidate: one for a brew or cask candidate, none otherwise
ChecksCalled(candidate) ==
    IF candidate.target_pm = "brew" THEN << <<"brew", candidate.target_name>> >>
    ELSE IF candidate.target_pm = "cask" THEN << <<"cask", candidate.target_name>> >>
    ELSE <<>>

RECURSIVE ChecksCalledAll(_)
ChecksCalledAll(cands) ==
    IF cands = <<>> THEN <<>>
    ELSE ChecksCalled(Head(cands)) \o ChecksCalledAll(Tail(cands))

\* mutant: a candidate of an unknown package manager is looked up in Homebrew
_validate_candidate_UnknownChecked(candidate) ==
    IF candidate.target_pm = "cask" THEN exists_in_cask(candidate.target_name)
    ELSE exists_in_brew(candidate.target_name)

_validate_candidate(candidate) ==
    IF candidate.target_pm = "brew" THEN exists_in_brew(candidate.target_name)
    ELSE IF candidate.target_pm = "cask" THEN exists_in_cask(candidate.target_name)
    ELSE TRUE

Max2(a, b) == IF a >= b THEN a ELSE b

\* mutant: divides by 0.5 instead of multiplying
HalvedConfidence_Doubles(confidence) == Max2(0, confidence * 2)

\* max(0.0, confidence * 0.5)
HalvedConfidence(confidence) == Max2(0, confidence \div 2)

\* mutant: the validity test is inverted, the valid candidates are downgraded
ValidatedCandidate_Inverted(cand) ==
    LET is_valid == IF cand.target_pm = "brew" THEN exists_in_brew(cand.target_name)
                    ELSE IF cand.target_pm = "cask" THEN exists_in_cask(cand.target_name)
                    ELSE TRUE
        new_conf == IF is_valid THEN Max2(0, cand.confidence \div 2)
                    ELSE cand.confidence
    IN  [target_pm |-> cand.target_pm, target_name |-> cand.target_name,
         confidence |-> new_conf, reason |-> cand.reason, kind |-> cand.kind,
         post_install |-> cand.post_install]

\* one iteration of validate_brew_candidates' loop
ValidatedCandidate(cand) ==
    LET is_valid == IF cand.target_pm = "brew" THEN exists_in_brew(cand.target_name)
                    ELSE IF cand.target_pm = "cask" THEN exists_in_cask(cand.target_name)
                    ELSE TRUE
        new_conf == IF ~is_valid THEN HalvedConfidence(cand.confidence)
                    ELSE cand.confidence
    IN  [target_pm |-> cand.target_pm, target_name |-> cand.target_name,
         confidence |-> new_conf, reason |-> cand.reason, kind |-> cand.kind,
         post_install |-> cand.post_install]

\* ------------------------------------------------------------------------
\* Decision
\* ------------------------------------------------------------------------
\* max(candidates, key=confidence): the first candidate of maximal confidence
BestCandidate(cands) ==
    cands[Min({i \in 1..Len(cands) :
                  \A j \in 1..Len(cands) : cands[j].confidence <= cands[i].confidence})]

\* mutant: a confidence on a threshold falls into the lower bucket
ThresholdDecision_Exclusive(confidence) ==
    IF confidence > ThresholdAuto THEN AUTO
    ELSE IF confidence > ThresholdVerify THEN VERIFY
    ELSE MANUAL

ThresholdDecision(confidence) ==
    IF confidence >= ThresholdAuto THEN AUTO
    ELSE IF confidence >= ThresholdVerify THEN VERIFY
    ELSE MANUAL

\* mutant: an item without candidates is marked SKIP
_make_decision_EmptySkips(cands) ==
    IF cands = <<>> THEN SKIP
    ELSE ThresholdDecision(BestCandidate(cands).confidence)

_make_decision(cands) ==
    IF cands = <<>> THEN MANUAL
    ELSE ThresholdDecision(BestCandidate(cands).confidence)

\* ------------------------------------------------------------------------
\* load_registry
\* ------------------------------------------------------------------------
Loaded(reg) == [status |-> "ok", registry |-> reg]
Raised(exc) == [status |-> exc]

\* RegistryMapping(source_name=..., **mapping_data) validates: both targets
\* are required, the confidence lies in [0, 1]
DictEntryValid(raw) ==
    /\ raw.target_pm # None
    /\ raw.target_name # None
    /\ raw.confidence # None => (raw.confidence[1] >= 0 /\ raw.confidence[1] <= ConfScale)

OrDefault(opt, default) == IF opt # None THEN opt[1] ELSE default

\* the loop over mappings_data.items(): a dict entry is validated, a string
\* entry is the shorthand, any other entry falls through both branches
RECURSIVE LoadMappings(_, _)
LoadMappings(raws, acc) ==
    IF raws = <<>> THEN [ok |-> TRUE, mappings |-> acc]
    ELSE LET e == Head(raws) IN
         IF e.raw.kind = "dict"
         THEN IF DictEntryValid(e.raw)
              THEN LoadMappings(Tail(raws),
                       Append(acc, Entry(e.key, e.raw.target_pm[1], e.raw.target_name[1],
                                         OrDefault(e.raw.confidence, 800),
                                         OrDefault(e.raw.reason, "Registry mapping"),
                                         e.raw.post_install)))
              ELSE [ok |-> FALSE, mappings |-> acc]
         ELSE IF e.raw.kind = "str"
         THEN LoadMappings(Tail(raws),
                  Append(acc, Entry(e.key, "brew", e.raw.value, 900,
                                    "Direct mapping from registry", <<>>)))
         ELSE LoadMappings(Tail(raws), acc)

\* mutant: a missing file raises FileNotFoundError
load_registry_MissingRaises(source) ==
    IF ~source.exists THEN Raised("FileNotFoundError")
    ELSE IF source.doc.kind = "unparseable" THEN Raised("YAMLError")
    ELSE IF source.doc.kind # "map" THEN Raised("Exception")
    ELSE LET loaded == LoadMappings(source.doc.mappings, <<>>) IN
         IF loaded.ok
         THEN Loaded(Registry(OrDefault(source.doc.name, "default"), loaded.mappings,
                              source.doc.aliases))
         ELSE Raised("Exception")

load_registry(source) ==
    IF ~source.exists THEN Loaded(Registry("Default Registry", <<>>, <<>>))
    ELSE IF source.doc.kind = "unparseable" THEN Raised("YAMLError")
    ELSE IF source.doc.kind # "map" THEN Raised("Exception")
    ELSE LET loaded == LoadMappings(source.doc.mappings, <<>>) IN
         IF loaded.ok
         THEN Loaded(Registry(OrDefault(source.doc.name, "default"), loaded.mappings,
                              source.doc.aliases))
         ELSE Raised("Exception")

\* ------------------------------------------------------------------------
\* categorize_package / enrich_package_metadata
\* ------------------------------------------------------------------------
dev_tools ==
    {"git", "vim", "neovim", "tmux", "htop", "tree", "cmake", "make", "autoconf",
     "automake", "pkg-config", "gcc", "g++", "clang", "lldb", "gdb", "valgrind",
     "strace", "ltrace"}

utilities ==
    {"curl", "wget", "jq", "ripgrep", "fd", "bat", "eza", "fzf", "unzip", "zip", "tar",
     "gzip", "bzip2", "xz", "zstd", "rsync", "ncdu", "httpie", "nmap", "watch", "parallel"}

languages ==
    {"python", "python3", "node", "nodejs", "go", "rust", "ruby", "java", "kotlin",
     "scala", "clojure", "haskell", "ocaml", "erlang", "elixir", "crystal", "nim", "zig",
     "v"}

build_tools ==
    {"maven", "gradle", "sbt", "cargo", "npm", "yarn", "pnpm", "pip", "poetry", "pipenv",
     "conda", "mamba"}

databases ==
    {"postgresql", "mysql", "sqlite", "redis", "mongodb", "cassandra", "elasticsearch",
     "influxdb", "timescaledb", "cockroachdb"}

containers ==
    {"docker", "kubernetes", "helm", "kubectl", "minikube", "kind", "docker-compose",
     "podman", "buildah", "skopeo"}

cloud_tools ==
    {"awscli", "terraform", "gcloud", "az", "doctl", "kubectl", "helm", "istioctl",
     "linkerd", "consul", "vault"}

categorize_package(item) ==
    LET name == Lower(item.source_name) IN
    IF name \in dev_tools THEN "development"
    ELSE IF name \in utilities THEN "utilities"
    ELSE IF name \in languages THEN "languages"
    ELSE IF name \in build_tools THEN "build_tools"
    ELSE IF name \in databases THEN "databases"
    ELSE IF name \in containers THEN "containers"
    ELSE IF name \in cloud_tools THEN "cloud"
    ELSE "other"

\* the package_type the metadata gets for a package manager
PackageType(pm) ==
    CASE pm = "apt" -> "system"
      [] pm = "pip" -> "python"
      [] pm = "npm" -> "nodejs"
      [] pm = "cargo" -> "rust"
      [] pm = "gem" -> "ruby"

\* meta = package.meta.copy(); meta["package_type"] = ...
WithPackageType(meta, pm) ==
    [k \in DOMAIN meta \cup {"package_type"} |->
        IF k = "package_type" THEN PackageType(pm) ELSE meta[k]]

\* "if not package.category": None and the empty string are falsy
CategoryMissing(item) == item.category = None \/ item.category = Some("")

\* the argument object after the call: package.category is assigned when missing
EnrichedArgument(item) ==
    IF CategoryMissing(item)
    THEN [item EXCEPT !.category = Some(categorize_package(item))]
    ELSE item

\* the NormalizedItem the call returns
enrich_package_metadata(item) ==
    [source_pm |-> item.source_pm, source_name |-> item.source_name,
     version |-> item.version, category |-> EnrichedArgument(item).category,
     meta |-> WithPackageType(item.meta, item.source_pm)]

\* ------------------------------------------------------------------------
\* Inputs
\* ------------------------------------------------------------------------
SeqUpTo(S, n) == UNION {[1..k -> S] : k \in 0..n}

RegEmpty == Registry("Default Registry", <<>>, <<>>)

RegDirect ==
    Registry("test",
             << Entry("git", "brew", "git", 950, "Registry mapping", <<>>),
                Entry("fd-find", "brew", "fd", 900, "Direct mapping from registry", <<>>) >>,
             [a \in {"git-core"} |-> "git"])

RegCask ==
    Registry("custom",
             << Entry("git", "cask", "github", 800, "Registry mapping", <<"git lfs install">>),
                Entry("libgit2-dev", "brew", "libgit2", 500, "Registry mapping", <<>>),
                Entry("python3-pip", "pip", "pip", 700, "Registry mapping", <<>>) >>,
             <<>>)

Registries == {RegEmpty, RegDirect, RegCask}

Items ==
    { NormalizedItem("apt", "git", None),
      NormalizedItem("apt", "fd-find", None),
      NormalizedItem("apt", "libfoo", None),
      NormalizedItem("apt", "libgit2-dev", None),
      NormalizedItem("apt", "python3-pip", None),
      NormalizedItem("apt", "nonexistent-xyz", None),
      NormalizedItem("apt", "Git", Some("development")),
      NormalizedItem("apt", "redis-bin", Some("databases")) }

FullIndex ==
    { <<"brew", "git">>, <<"brew", "fd">>, <<"brew", "foo">>, <<"brew", "libgit2">>,
      <<"brew", "git2-dev">>, <<"brew", "pip">>, <<"brew", "python@3.12">>,
      <<"brew", "redis">>, <<"cask", "github">> }

BrewOnlyIndex == {t \in FullIndex : t[1] = "brew" /\ t[2] \in {"git", "pip", "redis"}}

CaskOnlyIndex == {t \in FullIndex : t[1] = "cask"}

BrewIndexes == {{}, BrewOnlyIndex, CaskOnlyIndex, FullIndex}

Faults == {"error", "timeout", "raise"}

\* the worlds a verifying run meets: brew answering from an index, or brew
\* failing although every name exists
BrewWorlds ==
    {<<ix, "none">> : ix \in BrewIndexes} \cup {<<FullIndex, f>> : f \in Faults}

CandUniverse ==
    { Candidate("brew", "git", 950, "Registry mapping", <<>>),
      Candidate("brew", "ghost-pkg", 950, "Registry mapping", <<>>),
      Candidate("cask", "github", 800, "Registry mapping", <<"git lfs install">>),
      Candidate("cask", "ghost-app", 300, "GUI terminal on macOS", <<>>),
      Candidate("pip", "requests", 700, "Python package: requests", <<>>),
      Candidate("brew", "ghost-zero", 0, "Registry mapping", <<>>) }

ResultCandidates ==
    { None,
      Some(Candidate("brew", "git", 950, "Registry mapping", <<>>)),
      Some(Candidate("cask", "github", 700, "Registry mapping", <<>>)),
      Some(Candidate("pip", "requests", 300, "Python package: requests", <<>>)) }

ResultUniverse ==
    { MappingResult(NormalizedItem("apt", "git", None), c, d) :
        c \in ResultCandidates, d \in Decisions }

EmptyStats ==
    [total |-> 0, auto |-> 0, verify |-> 0, manual |-> 0, skipped |-> 0,
     by_target_pm |-> <<>>, by_confidence |-> [high |-> 0, medium |-> 0, low |-> 0]]

\* candidate lists for a direct call of _make_decision: confidences on and
\* next to the two thresholds
DecideCandidates ==
    { Candidate("brew", "pkg", c, "Registry mapping", <<>>) :
        c \in {0, 598, 600, 898, 900, 1000} }

\* a registry in which the tiers of find_mapping disagree
RegTiers ==
    Registry("tiers",
             << Entry("git", "brew", "git", 950, "Registry mapping", <<>>),
                Entry("Vim", "brew", "vim", 900, "Registry mapping", <<>>),
                Entry("vim", "brew", "macvim", 800, "Registry mapping", <<>>),
                Entry("GIT-CORE", "brew", "git-gui", 700, "Registry mapping", <<>>),
                Entry("NVIM", "brew", "neovim", 850, "Registry mapping", <<>>) >>,
             [a \in {"git-core", "vim", "nvim", "emacs"} |->
                 CASE a = "git-core" -> "git"
                   [] a = "vim" -> "git"
                   [] a = "nvim" -> "neovim"
                   [] a = "emacs" -> "emacs-nox"])

FindRegistries == {RegEmpty, RegDirect, RegTiers}

FindNames ==
    {"git", "Git", "vim", "VIM", "git-core", "GIT-CORE", "nvim", "emacs", "fd-find", "unknown"}

\* a rule list with a literal and a regular expression of equal confidence
\* for the same name, the literal last
CustomHeuristics == <<
    HeuristicRule("^lib(.+)$", "brew", "\\1", 400, "Library packages often have lib prefix", TRUE),
    HeuristicRule("^(.+)-dev$", "brew", "\\1", 400, "Development packages often have -dev suffix", TRUE),
    HeuristicRule("^(.+)-doc$", "brew", "\\1", 900, "Documentation packages often have -doc suffix", TRUE),
    HeuristicRule("libfoo-dev", "brew", "foo", 400, "libfoo-dev is the Ubuntu package name for foo", FALSE) >>

RuleLists == {<<>>, DEFAULT_HEURISTICS, CustomHeuristics}

HeuristicNames ==
    {"fd-find", "python3-pip", "python3", "libfoo", "libfoo-dev", "libfoo-dbg",
     "libfoo-dev-doc", "nonexistent-package", "lib", "-dev"}

\* what a registry file holds: a mapping entry is a dict, a string or another
\* YAML value
DictEntry(pm, name, conf, reason, post) ==
    [kind |-> "dict", target_pm |-> pm, target_name |-> name, confidence |-> conf,
     reason |-> reason, post_install |-> post]
StrEntry(value) == [kind |-> "str", value |-> value]
OtherEntry == [kind |-> "other"]
Raw(key, raw) == [key |-> key, raw |-> raw]

MapDocument(name, aliases, mappings) ==
    [kind |-> "map", name |-> name, aliases |-> aliases, mappings |-> mappings]

Source(exists, doc) == [exists |-> exists, doc |-> doc]

GitDict == DictEntry(Some("brew"), Some("git"), Some(950), Some("Direct mapping"), <<>>)

RegistrySources ==
    { Source(FALSE, [kind |-> "absent"]),
      Source(TRUE, [kind |-> "unparseable"]),
      Source(TRUE, [kind |-> "null"]),
      Source(TRUE, [kind |-> "list"]),
      Source(TRUE, MapDocument(None, <<>>, <<>>)),
      Source(TRUE, MapDocument(Some("Ubuntu to Homebrew"), [a \in {"git-core"} |-> "git"],
                               << Raw("git", GitDict),
                                  Raw("fd-find", StrEntry("fd")),
                                  Raw("vim", DictEntry(Some("brew"), Some("vim"), None, None, <<>>)) >>)),
      Source(TRUE, MapDocument(Some("Ubuntu to Homebrew"), <<>>,
                               << Raw("git", GitDict),
                                  Raw("vim", OtherEntry),
                                  Raw("fd-find", StrEntry("fd")) >>)),
      Source(TRUE, MapDocument(None, <<>>, << Raw("vim", OtherEntry) >>)),
      Source(TRUE, MapDocument(None, <<>>,
                               << Raw("git", DictEntry(Some("brew"), Some("git"), Some(1500), None, <<>>)) >>)),
      Source(TRUE, MapDocument(None, <<>>,
                               << Raw("git", GitDict),
                                  Raw("vim", DictEntry(Some("brew"), None, None, None, <<>>)) >>)) }

\* what the two commands of an existence check can answer for the name "git"
InfoOutcomes ==
    { CommandResult(FALSE, 0, {"git: stable 2.39.2"}),
      CommandResult(FALSE, 1, {}),
      CommandResult(FALSE, -1, {}),
      CommandResult(TRUE, -1, {}) }

SearchOutputs ==
    { {}, {"git"}, {"  git "}, {"Git"}, {"git-lfs", "libgit2"},
      {"==> Formulae", "git", "git-lfs"} }

SearchOutcomes ==
    {CommandResult(FALSE, c, out) : c \in {0, 1, -1}, out \in SearchOutputs}
        \cup {CommandResult(TRUE, -1, {})}

\* batches for a run in which a matcher raises, and the matcher and name it
\* raises for
RaisingItems == {NormalizedItem("apt", "git", None), NormalizedItem("apt", "fd-find", None)}

MatcherFaults ==
    {[matcher |-> m, source_name |-> "git"] : m \in {"patterns", "category"}}

\* items for enrich_package_metadata: with and without a category, with and
\* without metadata
EnrichItems ==
    { [source_pm |-> pm, source_name |-> n, version |-> None, category |-> c, meta |-> m] :
        pm \in {"apt", "pip"},
        n \in {"git", "Curl", "python3", "pip", "redis", "docker", "terraform", "libfoo"},
        c \in {None, Some(""), Some("development")},
        m \in {<<>>, [k \in {"origin"} |-> "manual"]} }

\* arguments for a direct call of apply_category_based_mapping
CategoryNames ==
    {"git", "Redis-Server", "libsqlite3-dev", "vim-tmux", "git-curl", "jq", "ripgrep",
     "postgresql-client", "nonexistent-xyz"}

Categories == {None, Some("databases"), Some("development"), Some("utilities"), Some("other")}

\* arguments for a direct call of apply_common_patterns
PatternNames ==
    {"python3-pip", "python3-", "redis-bin", "-bin", "python3-foo-bin", "gcc-4.8", "-1.0",
     "python3", "nonexistent-xyz", "x"}

\* the stages of the generate command, and where a stage can be made to raise
Stages == <<"mkdir", "load", "collect", "map", "emit">>
StageFaults == {"none", "mkdir", "load", "collect", "map", "emit"}

\* what normalize_all_packages can find on the machine
CollectedPackages ==
    { <<>>,
      <<NormalizedItem("apt", "git", None)>>,
      <<NormalizedItem("apt", "fd-find", None), NormalizedItem("apt", "nonexistent-xyz", None)>> }

\* ------------------------------------------------------------------------
\* Initial states: one call of an entry point, with its arguments
\* ------------------------------------------------------------------------
NoCall ==
    /\ fnArg = None
    /\ fnRet = None

InitMap ==
    /\ op = "map"
    /\ registry \in Registries
    /\ verify \in BOOLEAN
    /\ \E w \in (IF verify THEN BrewWorlds ELSE {<<{}, "none">>}) :
           brewIndex = w[1] /\ cliFault = w[2]
    /\ packages \in SeqUpTo(Items, MaxItems)
    /\ vIn = <<>>
    /\ sIn = <<>>
    /\ NoCall

InitValidate ==
    /\ op = "validate"
    /\ registry = RegEmpty
    /\ verify = FALSE
    /\ brewIndex \in BrewIndexes
    /\ cliFault = "none"
    /\ packages = <<>>
    /\ vIn \in SeqUpTo(CandUniverse, MaxCands)
    /\ sIn = <<>>
    /\ NoCall

InitStats ==
    /\ op = "stats"
    /\ registry = RegEmpty
    /\ verify = FALSE
    /\ brewIndex = {}
    /\ cliFault = "none"
    /\ packages = <<>>
    /\ vIn = <<>>
    /\ sIn \in SeqUpTo(ResultUniverse, MaxResults)
    /\ NoCall

\* an entry point that does not touch the mapper's, the validator's or the
\* statistics' state starts with those at rest
AtRest ==
    /\ registry = RegEmpty
    /\ verify = FALSE
    /\ packages = <<>>
    /\ vIn = <<>>
    /\ sIn = <<>>

InitDecide ==
    /\ op = "decide"
    /\ AtRest
    /\ brewIndex = {}
    /\ cliFault = "none"
    /\ fnArg \in SeqUpTo(DecideCandidates, MaxCands)
    /\ fnRet = None

InitFind ==
    /\ op = "find"
    /\ AtRest
    /\ brewIndex = {}
    /\ cliFault = "none"
    /\ fnArg \in {[registry |-> r, source_name |-> n] : r \in FindRegistries, n \in FindNames}
    /\ fnRet = None

InitHeur ==
    /\ op = "heur"
    /\ AtRest
    /\ brewIndex = {}
    /\ cliFault = "none"
    /\ fnArg \in {[source_name |-> n, heuristics |-> h] : n \in HeuristicNames, h \in RuleLists}
    /\ fnRet = None

InitLoad ==
    /\ op = "load"
    /\ AtRest
    /\ brewIndex = {}
    /\ cliFault = "none"
    /\ fnArg \in RegistrySources
    /\ fnRet = None

InitGenerate ==
    /\ op = "generate"
    /\ AtRest
    /\ brewIndex = FullIndex
    /\ cliFault = "none"
    /\ fnArg \in {[source |-> s, no_verify |-> n, fault |-> f] :
                    s \in RegistrySources, n \in BOOLEAN, f \in StageFaults}
    /\ fnRet = None

InitExists ==
    /\ op = "exists"
    /\ AtRest
    /\ brewIndex = {}
    /\ cliFault = "none"
    /\ fnArg \in {[kind |-> k, package_name |-> "git", info |-> i, search |-> q] :
                    k \in {"brew", "cask"}, i \in InfoOutcomes, q \in SearchOutcomes}
    /\ fnRet = None

InitMapRaising ==
    /\ op = "map_raising"
    /\ registry = RegDirect
    /\ verify = FALSE
    /\ brewIndex = {}
    /\ cliFault = "none"
    /\ packages \in SeqUpTo(RaisingItems, MaxItems)
    /\ vIn = <<>>
    /\ sIn = <<>>
    /\ fnArg \in MatcherFaults
    /\ fnRet = None

InitEnrich ==
    /\ op = "enrich"
    /\ AtRest
    /\ brewIndex = {}
    /\ cliFault = "none"
    /\ fnArg \in EnrichItems
    /\ fnRet = None

InitCategory ==
    /\ op = "category"
    /\ AtRest
    /\ brewIndex = {}
    /\ cliFault = "none"
    /\ fnArg \in {[source_name |-> n, category |-> c] : n \in CategoryNames, c \in Categories}
    /\ fnRet = None

InitPatterns ==
    /\ op = "patterns"
    /\ AtRest
    /\ brewIndex = {}
    /\ cliFault = "none"
    /\ fnArg \in {[source_name |-> n] : n \in PatternNames}
    /\ fnRet = None

Init ==
    /\ \/ InitMap \/ InitValidate \/ InitStats
       \/ InitDecide \/ InitFind \/ InitHeur \/ InitLoad \/ InitGenerate
       \/ InitExists \/ InitMapRaising \/ InitEnrich
       \/ InitCategory \/ InitPatterns
    /\ pc = "idle"
    /\ heuristics = DEFAULT_HEURISTICS
    /\ idx = 1
    /\ candidates = <<>>
    /\ results = <<>>
    /\ run = 0
    /\ prevResults = <<>>
    /\ validated = <<>>
    /\ stats = EmptyStats
    /\ checks = <<>>
    /\ stagesRun = <<>>
    /\ exitCode = None

\* ------------------------------------------------------------------------
\* map_packages / map_single_package
\* ------------------------------------------------------------------------
\* map_packages runs on its own, as the fourth stage of the generate command, and
\* on its own with a matcher that raises for one source name
MapperOps == {"map", "generate", "map_raising"}

\* the pattern or category matcher raises for the item under way
MatcherRaises(matcher) ==
    /\ op = "map_raising"
    /\ fnArg.matcher = matcher
    /\ fnArg.source_name = packages[idx].source_name

package == packages[idx]

\* map_packages is called: results = [], the loop starts
MapPackages ==
    /\ op \in {"map", "map_raising"} /\ pc = "idle"
    /\ run' = 1
    /\ results' = <<>>
    /\ idx' = 1
    /\ pc' = IF packages = <<>> THEN "done" ELSE "registry"
    /\ UNCHANGED <<op, registry, heuristics, verify, brewIndex, packages, candidates,
                   prevResults, validateVars, statsVars, otherVars, checks>>

\* mutant: the candidate list is not emptied between items
StepRegistry_KeepsPrevious ==
    /\ op \in MapperOps /\ pc = "registry"
    /\ LET registry_mapping == find_mapping(registry, package.source_name) IN
       candidates' =
           IF registry_mapping # None
           THEN LET m == registry_mapping[1] IN
                <<Candidate(m.target_pm, m.target_name, m.confidence, m.reason,
                            m.post_install)>>
           ELSE candidates
    /\ pc' = "heuristics"
    /\ UNCHANGED <<op, registry, heuristics, verify, brewIndex, packages, idx, results,
                   run, prevResults, validateVars, statsVars, otherVars, checks>>

\* mutant: a registry hit is consumed (the entry is popped from the mappings)
StepRegistry_PopsEntry ==
    /\ op \in MapperOps /\ pc = "registry"
    /\ LET registry_mapping == find_mapping(registry, package.source_name) IN
       /\ candidates' =
              IF registry_mapping # None
              THEN LET m == registry_mapping[1] IN
                   <<Candidate(m.target_pm, m.target_name, m.confidence, m.reason,
                               m.post_install)>>
              ELSE <<>>
       /\ registry' =
              IF registry_mapping # None
              THEN [registry EXCEPT
                      !.mappings = SelectSeq(@, LAMBDA e : e.mapping # registry_mapping[1])]
              ELSE registry
    /\ pc' = "heuristics"
    /\ UNCHANGED <<op, heuristics, verify, brewIndex, packages, idx, results,
                   run, prevResults, validateVars, statsVars, otherVars, checks>>

\* Step 1: check the registry
StepRegistry ==
    /\ op \in MapperOps /\ pc = "registry"
    /\ LET registry_mapping == find_mapping(registry, package.source_name) IN
       candidates' =
           IF registry_mapping # None
           THEN LET m == registry_mapping[1] IN
                <<Candidate(m.target_pm, m.target_name, m.confidence, m.reason,
                            m.post_install)>>
           ELSE <<>>
    /\ pc' = "heuristics"
    /\ UNCHANGED <<op, registry, heuristics, verify, brewIndex, packages, idx, results,
                   run, prevResults, validateVars, statsVars, otherVars, checks>>

\* mutant: the heuristic rules are applied whether or not the registry matched
StepHeuristics_Always ==
    /\ op \in MapperOps /\ pc = "heuristics"
    /\ candidates' =
           candidates \o CandidatesOfMatches(apply_heuristics(package.source_name, heuristics))
    /\ pc' = "patterns"
    /\ UNCHANGED <<op, registry, heuristics, verify, brewIndex, packages, idx, results,
                   run, prevResults, validateVars, statsVars, otherVars, checks>>

\* Step 2: heuristics if no registry match
StepHeuristics ==
    /\ op \in MapperOps /\ pc = "heuristics"
    /\ candidates' =
           IF candidates = <<>>
           THEN CandidatesOfMatches(apply_heuristics(package.source_name, heuristics))
           ELSE candidates
    /\ pc' = "patterns"
    /\ UNCHANGED <<op, registry, heuristics, verify, brewIndex, packages, idx, results,
                   run, prevResults, validateVars, statsVars, otherVars, checks>>

\* Step 3: common patterns
StepPatterns ==
    /\ op \in MapperOps /\ pc = "patterns"
    /\ IF MatcherRaises("patterns")
       THEN /\ pc' = "Exception"
            /\ UNCHANGED candidates
       ELSE /\ candidates' =
                   candidates \o CandidatesOfMatches(apply_common_patterns(package.source_name))
            /\ pc' = "category"
    /\ UNCHANGED <<op, registry, heuristics, verify, brewIndex, packages, idx, results,
                   run, prevResults, validateVars, statsVars, otherVars, checks>>

\* Step 4: category-based mapping
StepCategory ==
    /\ op \in MapperOps /\ pc = "category"
    /\ IF MatcherRaises("category")
       THEN /\ pc' = "Exception"
            /\ UNCHANGED candidates
       ELSE /\ candidates' =
                   candidates \o CandidatesOfMatches(
                       apply_category_based_mapping(package.source_name, package.category))
            /\ pc' = "validate"
    /\ UNCHANGED <<op, registry, heuristics, verify, brewIndex, packages, idx, results,
                   run, prevResults, validateVars, statsVars, otherVars, checks>>

\* mutant: the validation step checks nothing and keeps every candidate
StepValidate_KeepsAll ==
    /\ op \in MapperOps /\ pc = "validate"
    /\ candidates' = candidates
    /\ checks' = IF verify /\ candidates # <<>> THEN ChecksCalledAll(candidates) ELSE <<>>
    /\ pc' = "decide"
    /\ UNCHANGED <<op, registry, heuristics, verify, brewIndex, packages, idx, results,
                   run, prevResults, validateVars, statsVars, otherVars>>

\* mutant: a candidate that passes its check is promoted to full confidence
StepValidate_Promotes ==
    /\ op \in MapperOps /\ pc = "validate"
    /\ candidates' =
           IF verify /\ candidates # <<>>
           THEN LET kept == SelectSeq(candidates, _validate_candidate) IN
                [i \in 1..Len(kept) |-> [kept[i] EXCEPT !.confidence = 1000]]
           ELSE candidates
    /\ checks' = IF verify /\ candidates # <<>> THEN ChecksCalledAll(candidates) ELSE <<>>
    /\ pc' = "decide"
    /\ UNCHANGED <<op, registry, heuristics, verify, brewIndex, packages, idx, results,
                   run, prevResults, validateVars, statsVars, otherVars>>

\* mutant: the first candidate is kept whatever its check returns
StepValidate_KeepsFirst ==
    /\ op \in MapperOps /\ pc = "validate"
    /\ candidates' =
           IF verify /\ candidates # <<>>
           THEN <<Head(candidates)>> \o SelectSeq(Tail(candidates), _validate_candidate)
           ELSE candidates
    /\ checks' = IF verify /\ candidates # <<>> THEN ChecksCalledAll(candidates) ELSE <<>>
    /\ pc' = "decide"
    /\ UNCHANGED <<op, registry, heuristics, verify, brewIndex, packages, idx, results,
                   run, prevResults, validateVars, statsVars, otherVars>>

\* Step 5: keep the candidates that validate, if verification is enabled
StepValidate ==
    /\ op \in MapperOps /\ pc = "validate"
    /\ candidates' =
           IF verify /\ candidates # <<>>
           THEN SelectSeq(candidates, _validate_candidate)
           ELSE candidates
    /\ checks' = IF verify /\ candidates # <<>> THEN ChecksCalledAll(candidates) ELSE <<>>
    /\ pc' = "decide"
    /\ UNCHANGED <<op, registry, heuristics, verify, brewIndex, packages, idx, results,
                   run, prevResults, validateVars, statsVars, otherVars>>

\* mutant: an item without candidates aborts the batch
StepDecide_AbortsOnEmpty ==
    /\ op \in MapperOps /\ pc = "decide"
    /\ IF candidates = <<>>
       THEN /\ pc' = "ValueError"
            /\ UNCHANGED <<results, idx>>
       ELSE /\ results' = Append(results,
                                 MappingResult(package, Some(candidates[1]),
                                               _make_decision(candidates)))
            /\ idx' = idx + 1
            /\ pc' = IF idx = Len(packages) THEN "done" ELSE "registry"
    /\ UNCHANGED <<op, registry, heuristics, verify, brewIndex, packages, candidates,
                   run, prevResults, validateVars, statsVars, otherVars, checks>>

\* mutant: the result is inserted at the front of the list
StepDecide_Prepends ==
    /\ op \in MapperOps /\ pc = "decide"
    /\ LET decision == _make_decision(candidates) IN
       results' = <<MappingResult(package,
                                  IF candidates # <<>> THEN Some(candidates[1])
                                  ELSE None,
                                  decision)>> \o results
    /\ idx' = idx + 1
    /\ pc' = IF idx = Len(packages) THEN "done" ELSE "registry"
    /\ UNCHANGED <<op, registry, heuristics, verify, brewIndex, packages, candidates,
                   run, prevResults, validateVars, statsVars, otherVars, checks>>

\* Step 6: decide, build the MappingResult, append it; the loop goes on or returns
StepDecide ==
    /\ op \in MapperOps /\ pc = "decide"
    /\ LET decision == _make_decision(candidates) IN
       results' = Append(results,
                         MappingResult(package,
                                       IF candidates # <<>> THEN Some(candidates[1])
                                       ELSE None,
                                       decision))
    /\ idx' = idx + 1
    /\ pc' = IF idx = Len(packages) THEN "done" ELSE "registry"
    /\ UNCHANGED <<op, registry, heuristics, verify, brewIndex, packages, candidates,
                   run, prevResults, validateVars, statsVars, otherVars, checks>>

\* map_packages is called a second time with the same arguments
MapPackagesAgain ==
    /\ op = "map" /\ pc = "done" /\ run = 1
    /\ run' = 2
    /\ prevResults' = results
    /\ results' = <<>>
    /\ idx' = 1
    /\ pc' = IF packages = <<>> THEN "done" ELSE "registry"
    /\ UNCHANGED <<op, registry, heuristics, verify, brewIndex, packages, candidates,
                   validateVars, statsVars, otherVars, checks>>

\* ------------------------------------------------------------------------
\* validate_brew_candidates
\* ------------------------------------------------------------------------
ValidateBrewCandidates ==
    /\ op = "validate" /\ pc = "idle"
    /\ validated' = <<>>
    /\ idx' = 1
    /\ pc' = IF vIn = <<>> THEN "done" ELSE "loop"
    /\ UNCHANGED <<op, brewIndex, vIn, mapVars, statsVars, otherVars, checks>>

ValidateLoop ==
    /\ op = "validate" /\ pc = "loop"
    /\ validated' = Append(validated, ValidatedCandidate(vIn[idx]))
    /\ checks' = checks \o ChecksCalled(vIn[idx])
    /\ idx' = idx + 1
    /\ pc' = IF idx = Len(vIn) THEN "done" ELSE "loop"
    /\ UNCHANGED <<op, brewIndex, vIn, mapVars, statsVars, otherVars>>

\* ------------------------------------------------------------------------
\* get_mapping_statistics
\* ------------------------------------------------------------------------
Bump(f, k) == IF k \in DOMAIN f THEN [f EXCEPT ![k] = @ + 1] ELSE f @@ (k :> 1)

ConfidenceBand(confidence) ==
    IF confidence >= 900 THEN "high"
    ELSE IF confidence >= 600 THEN "medium"
    ELSE "low"

\* the body of the loop for a result whose decision value is a key of stats
CountResult(st, result) ==
    LET counted == [st EXCEPT ![result.decision] = @ + 1] IN
    IF result.candidate # None
    THEN LET c == result.candidate[1] IN
         [counted EXCEPT !.by_target_pm = Bump(@, c.target_pm),
                         !.by_confidence[ConfidenceBand(c.confidence)] = @ + 1]
    ELSE counted

GetMappingStatistics ==
    /\ op = "stats" /\ pc = "idle"
    /\ stats' = [EmptyStats EXCEPT !.total = Len(sIn)]
    /\ idx' = 1
    /\ pc' = IF sIn = <<>> THEN "done" ELSE "loop"
    /\ UNCHANGED <<op, brewIndex, sIn, mapVars, validateVars, otherVars, checks>>

\* stats[result.decision.value] += 1 raises KeyError when the value is no key
StatsLoop ==
    /\ op = "stats" /\ pc = "loop"
    /\ IF sIn[idx].decision \in DOMAIN stats
       THEN /\ stats' = CountResult(stats, sIn[idx])
            /\ idx' = idx + 1
            /\ pc' = IF idx = Len(sIn) THEN "done" ELSE "loop"
       ELSE /\ pc' = "KeyError"
            /\ UNCHANGED <<stats, idx>>
    /\ UNCHANGED <<op, brewIndex, sIn, mapVars, validateVars, otherVars, checks>>

\* ------------------------------------------------------------------------
\* Direct calls of _make_decision, find_mapping, apply_heuristics and
\* load_registry
\* ------------------------------------------------------------------------
callFrame == <<op, brewIndex, idx, mapVars, validateVars, statsVars, cliFault, checks,
               genVars, fnArg>>

MakeDecision ==
    /\ op = "decide" /\ pc = "idle"
    /\ fnRet' = _make_decision(fnArg)
    /\ pc' = "done"
    /\ UNCHANGED callFrame

FindMapping ==
    /\ op = "find" /\ pc = "idle"
    /\ fnRet' = find_mapping(fnArg.registry, fnArg.source_name)
    /\ pc' = "done"
    /\ UNCHANGED callFrame

ApplyHeuristics ==
    /\ op = "heur" /\ pc = "idle"
    /\ fnRet' = apply_heuristics(fnArg.source_name, fnArg.heuristics)
    /\ pc' = "done"
    /\ UNCHANGED callFrame

LoadRegistry ==
    /\ op = "load" /\ pc = "idle"
    /\ fnRet' = load_registry(fnArg)
    /\ pc' = IF load_registry(fnArg).status = "ok" THEN "done" ELSE load_registry(fnArg).status
    /\ UNCHANGED callFrame

\* exists_in_brew / exists_in_cask with the command answers given
ExistsCheck ==
    /\ op = "exists" /\ pc = "idle"
    /\ fnRet' = [value |-> ExistsFrom(fnArg.info, fnArg.search, fnArg.package_name),
                 commands |-> CommandsRun(fnArg.info, fnArg.search)]
    /\ pc' = "done"
    /\ UNCHANGED callFrame

\* enrich_package_metadata(package): fnArg is the object passed in
EnrichPackageMetadata ==
    /\ op = "enrich" /\ pc = "idle"
    /\ fnArg' = EnrichedArgument(fnArg)
    /\ fnRet' = enrich_package_metadata(fnArg)
    /\ pc' = "done"
    /\ UNCHANGED <<op, brewIndex, idx, mapVars, validateVars, statsVars, cliFault, checks,
                   genVars>>

ApplyCategoryBasedMapping ==
    /\ op = "category" /\ pc = "idle"
    /\ fnRet' = apply_category_based_mapping(fnArg.source_name, fnArg.category)
    /\ pc' = "done"
    /\ UNCHANGED callFrame

ApplyCommonPatterns ==
    /\ op = "patterns" /\ pc = "idle"
    /\ fnRet' = apply_common_patterns(fnArg.source_name)
    /\ pc' = "done"
    /\ UNCHANGED callFrame

\* ------------------------------------------------------------------------
\* The generate command
\* ------------------------------------------------------------------------
genFrame == <<op, brewIndex, cliFault, checks, fnArg, idx, candidates, heuristics,
              prevResults, validateVars, statsVars>>

\* sys.exit(1) of an except branch
Exit1 ==
    /\ pc' = "exited"
    /\ exitCode' = Some(1)

\* out.mkdir(parents=True, exist_ok=True)
GenMkdir ==
    /\ op = "generate" /\ pc = "idle"
    /\ stagesRun' = Append(stagesRun, "mkdir")
    /\ IF fnArg.fault = "mkdir" THEN Exit1
       ELSE pc' = "check" /\ UNCHANGED exitCode
    /\ UNCHANGED <<genFrame, fnRet, registry, verify, packages, results, run>>

\* if not registry_path.exists(): sys.exit(1)
GenCheckRegistry ==
    /\ op = "generate" /\ pc = "check"
    /\ stagesRun' = Append(stagesRun, "load")
    /\ IF ~fnArg.source.exists THEN Exit1
       ELSE pc' = "load" /\ UNCHANGED exitCode
    /\ UNCHANGED <<genFrame, fnRet, registry, verify, packages, results, run>>

\* mutant: a registry that fails to load is replaced by the default registry
GenLoad_Continues ==
    /\ op = "generate" /\ pc = "load"
    /\ fnRet' = IF fnArg.fault = "load" \/ load_registry(fnArg.source).status # "ok"
                THEN Loaded(RegEmpty)
                ELSE load_registry(fnArg.source)
    /\ pc' = "collect"
    /\ UNCHANGED <<genFrame, genVars, registry, verify, packages, results, run>>

\* registry_data = load_registry(registry_path)
GenLoad ==
    /\ op = "generate" /\ pc = "load"
    /\ IF fnArg.fault = "load" \/ load_registry(fnArg.source).status # "ok"
       THEN Exit1 /\ UNCHANGED fnRet
       ELSE /\ fnRet' = load_registry(fnArg.source)
            /\ pc' = "collect"
            /\ UNCHANGED exitCode
    /\ UNCHANGED <<genFrame, stagesRun, registry, verify, packages, results, run>>

\* packages = normalize_all_packages()
GenCollect ==
    /\ op = "generate" /\ pc = "collect"
    /\ stagesRun' = Append(stagesRun, "collect")
    /\ IF fnArg.fault = "collect"
       THEN Exit1 /\ UNCHANGED packages
       ELSE /\ packages' \in CollectedPackages
            /\ pc' = "map"
            /\ UNCHANGED exitCode
    /\ UNCHANGED <<genFrame, fnRet, registry, verify, results, run>>

\* mapping_results = map_packages(packages, registry_data, verify=not no_verify):
\* a PackageMapper is built and its map_packages starts
GenMap ==
    /\ op = "generate" /\ pc = "map"
    /\ stagesRun' = Append(stagesRun, "map")
    /\ IF fnArg.fault = "map"
       THEN Exit1 /\ UNCHANGED <<registry, verify, results, run>>
       ELSE /\ registry' = fnRet.registry
            /\ verify' = ~fnArg.no_verify
            /\ run' = 1
            /\ results' = <<>>
            /\ pc' = IF packages = <<>> THEN "done" ELSE "registry"
            /\ UNCHANGED exitCode
    /\ UNCHANGED <<genFrame, fnRet, packages>>

\* the output files are written; the summary is printed and the command returns
GenEmit ==
    /\ op = "generate" /\ pc = "done"
    /\ stagesRun' = Append(stagesRun, "emit")
    /\ IF fnArg.fault = "emit" THEN Exit1
       ELSE pc' = "finished" /\ exitCode' = Some(0)
    /\ UNCHANGED <<genFrame, fnRet, registry, verify, packages, results, run>>

\* ------------------------------------------------------------------------
\* Specification
\* ------------------------------------------------------------------------
Next ==
    \/ MapPackages
    \/ StepRegistry
    \/ StepHeuristics
    \/ StepPatterns
    \/ StepCategory
    \/ StepValidate
    \/ StepDecide
    \/ MapPackagesAgain
    \/ ValidateBrewCandidates
    \/ ValidateLoop
    \/ GetMappingStatistics
    \/ StatsLoop
    \/ MakeDecision
    \/ FindMapping
    \/ ApplyHeuristics
    \/ LoadRegistry
    \/ GenMkdir
    \/ GenCheckRegistry
    \/ GenLoad
    \/ GenCollect
    \/ GenMap
    \/ GenEmit
    \/ ExistsCheck
    \/ EnrichPackageMetadata
    \/ ApplyCategoryBasedMapping
    \/ ApplyCommonPatterns

Spec == Init /\ [][Next]_vars

\* ========================================================================
\* Properties
\* ========================================================================
Retained(r) == r.candidate[1]

\* C1: every MappingResult that carries a candidate has the decision given by the
\* thresholds applied to that candidate's confidence (AUTO from 0.90, VERIFY from
\* 0.60, MANUAL below).
C1_DecisionOfRetainedCandidate ==
    \A i \in 1..Len(results) :
        results[i].candidate # None =>
            results[i].decision = ThresholdDecision(Retained(results[i]).confidence)

\* C2 as stated: a result's decision is MANUAL exactly when it carries no candidate.
C2_ManualIffAbsent ==
    \A i \in 1..Len(results) :
        (results[i].decision = MANUAL) <=> (results[i].candidate = None)

\* C2 as amended: a result without a candidate is MANUAL, and a MANUAL result carries
\* either no candidate or one whose confidence is below 0.60.
C2_AbsentImpliesManual ==
    \A i \in 1..Len(results) :
        /\ results[i].candidate = None => results[i].decision = MANUAL
        /\ results[i].decision = MANUAL =>
               \/ results[i].candidate = None
               \/ Retained(results[i]).confidence < ThresholdVerify

C2_Witness ==
    /\ op = "map" /\ pc = "done"
    /\ \E i \in 1..Len(results) :
           results[i].decision = MANUAL /\ results[i].candidate # None
    /\ \E j \in 1..Len(results) : results[j].candidate = None

\* the state right after an item's result was appended: candidates still holds
\* that item's post-validation list
JustDecided == op = "map" /\ pc \in {"registry", "done"} /\ results # <<>>

\* C3: the candidate retained in a result is the first candidate of maximal
\* confidence of the item's post-validation candidate list.
C3_RetainedIsFirstMaximum ==
    (JustDecided /\ candidates # <<>>) =>
        results[Len(results)].candidate = Some(BestCandidate(candidates))

\* C4: with verify enabled, the validation step removes no candidate: one that
\* fails its existence check stays in the list with half its confidence, and the
\* others stay as they are.
C4_FailedCheckKeptHalved ==
    [][(op = "map" /\ pc = "validate" /\ verify) =>
          /\ Len(candidates') = Len(candidates)
          /\ \A i \in 1..Len(candidates) :
                 candidates'[i] =
                     [candidates[i] EXCEPT
                         !.confidence = IF _validate_candidate(candidates[i]) THEN @
                                        ELSE HalvedConfidence(@)]]_vars

Verifiable(c) == c.target_pm \in {"brew", "cask"}

Exists(c) == <<c.target_pm, c.target_name>> \in brewIndex

\* C5: validate_brew_candidates returns a list of the same length and order; a
\* brew/cask candidate whose check fails gets max(0, confidence / 2), a candidate
\* whose check passes keeps its confidence, and namespace, name, reason and
\* post-install commands are unchanged.
C5_ValidateDowngrades ==
    op = "validate" =>
        /\ Len(validated) <= Len(vIn)
        /\ pc = "done" => Len(validated) = Len(vIn)
        /\ \A i \in 1..Len(validated) :
               /\ validated[i].target_pm = vIn[i].target_pm
               /\ validated[i].target_name = vIn[i].target_name
               /\ validated[i].reason = vIn[i].reason
               /\ validated[i].post_install = vIn[i].post_install
               /\ (Verifiable(vIn[i]) /\ ~Exists(vIn[i])) =>
                      /\ 2 * validated[i].confidence = vIn[i].confidence
                      /\ validated[i].confidence >= 0
               /\ (Verifiable(vIn[i]) /\ Exists(vIn[i])) =>
                      validated[i].confidence = vIn[i].confidence

C5_Witness ==
    /\ op = "validate" /\ pc = "done" /\ Len(vIn) = 2
    /\ Verifiable(vIn[1]) /\ ~Exists(vIn[1]) /\ vIn[1].confidence > 0
    /\ Verifiable(vIn[2]) /\ Exists(vIn[2])
    /\ vIn[2].post_install # <<>>

\* C6: when an item's source name is an exact key of the registry, the candidate of
\* its result has the target name and the reason of that registry entry.
C6_RegistryPrecedence ==
    \A i \in 1..Len(results) :
        (results[i].source.source_name \in MappingKeys(registry)
            /\ results[i].candidate # None) =>
            LET m == MappingAt(registry, results[i].source.source_name) IN
            /\ Retained(results[i]).target_name = m.target_name
            /\ Retained(results[i]).reason = m.reason

InRange(c) == 0 <= c.confidence /\ c.confidence <= ConfScale

\* C7: every candidate at every stage (the item's list as it is built and
\* validated, the retained candidates, the validator's output) has a confidence
\* between 0.0 and 1.0.
C7_ConfidenceInRange ==
    /\ \A i \in 1..Len(candidates) : InRange(candidates[i])
    /\ \A i \in 1..Len(results) :
           results[i].candidate # None => InRange(Retained(results[i]))
    /\ \A i \in 1..Len(validated) : InRange(validated[i])

C7_Witness ==
    /\ op = "validate" /\ pc = "done"
    /\ \E i \in 1..Len(validated) :
           validated[i].confidence < vIn[i].confidence /\ vIn[i].confidence < ThresholdVerify

\* C8: get_mapping_statistics raises no error, and its per-decision counts add up
\* to the number of results and to the 'total' field.
C8_DecisionCountsAddUp ==
    op = "stats" =>
        /\ pc # "KeyError"
        /\ pc = "done" =>
               /\ stats.auto + stats.verify + stats.manual + stats.skipped = Len(sIn)
               /\ stats.total = Len(sIn)

\* C9: map_packages returns one result per input item, in input order.
C9_OneResultPerItemInOrder ==
    op = "map" =>
        /\ Len(results) <= Len(packages)
        /\ \A i \in 1..Len(results) : results[i].source = packages[i]
        /\ pc = "done" => Len(results) = Len(packages)

C9_Witness ==
    /\ op = "map" /\ pc = "done" /\ Len(results) = 2
    /\ packages[1] # packages[2]

\* C10: a second call of map_packages on the same arguments returns the list the
\* first call returned, and once map_packages has been called no step changes the
\* registry or the default rule set.
C10_SecondRunIdentical ==
    [][/\ run >= 1 => registry' = registry
       /\ heuristics' = heuristics
       /\ (run' = 2 /\ pc' = "done") => results' = prevResults']_vars

C10_Witness ==
    /\ op = "map" /\ pc = "done" /\ run = 2 /\ verify
    /\ Len(results) = 2
    /\ results[1].candidate # None
    /\ results[1].source.source_name \in MappingKeys(registry)

\* the confidences of a candidate list
Confidences(cands) == {cands[i].confidence : i \in 1..Len(cands)}

MaxConfidence(cands) == CHOOSE m \in Confidences(cands) : \A c \in Confidences(cands) : c <= m

\* the decision the thresholds 0.90 and 0.60 give to a list of candidates
ExpectedDecision(cands) ==
    IF cands = <<>> THEN MANUAL
    ELSE IF MaxConfidence(cands) >= 900 THEN AUTO
    ELSE IF MaxConfidence(cands) >= 600 THEN VERIFY
    ELSE MANUAL

\* C11: _make_decision returns MANUAL for the empty list; otherwise AUTO when the
\* maximum confidence m of the list is at least 0.90, VERIFY when 0.60 <= m < 0.90
\* and MANUAL when m < 0.60; it never returns SKIP.  This holds for a direct call
\* and for the decision the mapper records for an item.
C11_DecisionByThresholds ==
    /\ (op = "decide" /\ pc = "done") =>
           (fnRet = ExpectedDecision(fnArg) /\ fnRet # SKIP)
    /\ JustDecided =>
           (results[Len(results)].decision = ExpectedDecision(candidates)
            /\ results[Len(results)].decision # SKIP)

C11_Witness ==
    /\ op = "decide" /\ pc = "done"
    /\ Len(fnArg) = 2
    /\ fnArg[1].confidence = 600 /\ fnArg[2].confidence = 598
    /\ fnRet = VERIFY

\* the candidate list map_single_package holds before validation
CandidatesBeforeValidation(reg, rules, item) ==
    LET hit == find_mapping(reg, item.source_name)
        first ==
            IF hit # None
            THEN <<Candidate(hit[1].target_pm, hit[1].target_name, hit[1].confidence,
                             hit[1].reason, hit[1].post_install)>>
            ELSE CandidatesOfMatches(apply_heuristics(item.source_name, rules))
    IN first \o CandidatesOfMatches(apply_common_patterns(item.source_name))
             \o CandidatesOfMatches(apply_category_based_mapping(item.source_name,
                                                                 item.category))

\* the same list, computed once for the registries and items of a mapping run
\* under the default rules
PreValidationTable ==
    [reg \in Registries, item \in Items |->
        CandidatesBeforeValidation(reg, DEFAULT_HEURISTICS, item)]

PreValidation(reg, rules, item) ==
    IF rules = DEFAULT_HEURISTICS /\ reg \in Registries /\ item \in Items
    THEN PreValidationTable[reg, item]
    ELSE CandidatesBeforeValidation(reg, rules, item)

Descending(cands) ==
    \A i, j \in 1..Len(cands) : i < j => cands[i].confidence >= cands[j].confidence

\* C12: when the validation step is reached the candidate list is the registry
\* candidate, or else the heuristic candidates by descending confidence, followed
\* by the pattern candidates and then the category candidates; after a registry
\* hit the heuristic step adds nothing.
C12_CandidateOrder ==
    /\ pc = "validate" =>
           /\ candidates = PreValidation(registry, heuristics, package)
           /\ Descending(CandidatesOfMatches(apply_heuristics(package.source_name,
                                                              heuristics)))
    /\ (pc = "patterns" /\ find_mapping(registry, package.source_name) # None) =>
           Len(candidates) = 1

C12_Witness ==
    /\ op = "map" /\ pc = "validate"
    /\ find_mapping(registry, package.source_name) # None
    /\ apply_heuristics(package.source_name, heuristics) # <<>>
    /\ Len(candidates) = 2

\* the positions of the registry's entries that a tier of the lookup selects
ExactTier(reg, n) == {i \in 1..Len(reg.mappings) : reg.mappings[i].key = n}

AliasTier(reg, n) ==
    IF n \in DOMAIN reg.aliases
    THEN {i \in 1..Len(reg.mappings) : reg.mappings[i].key = reg.aliases[n]}
    ELSE {}

FoldTier(reg, n) == {i \in 1..Len(reg.mappings) : Lower(reg.mappings[i].key) = Lower(n)}

First(S) == CHOOSE i \in S : \A j \in S : i <= j

\* C13: find_mapping returns the entry whose key is the name; else, when the
\* name is an alias of a key, the entry of that key; else the first entry whose
\* key equals the name case-insensitively; else nothing.  An exact key wins over
\* an alias and an alias wins over a case-insensitive match.
C13_FindMappingTiers ==
    (op = "find" /\ pc = "done") =>
        LET reg == fnArg.registry
            n == fnArg.source_name
        IN  IF ExactTier(reg, n) # {}
            THEN fnRet = Some(reg.mappings[First(ExactTier(reg, n))].mapping)
            ELSE IF AliasTier(reg, n) # {}
            THEN fnRet = Some(reg.mappings[First(AliasTier(reg, n))].mapping)
            ELSE IF FoldTier(reg, n) # {}
            THEN fnRet = Some(reg.mappings[First(FoldTier(reg, n))].mapping)
            ELSE fnRet = None

\* a name that is a key, an alias of another key and a case-insensitive match of
\* a third entry: the exact entry is returned
C13_Witness ==
    /\ op = "find" /\ pc = "done"
    /\ ExactTier(fnArg.registry, fnArg.source_name) # {}
    /\ AliasTier(fnArg.registry, fnArg.source_name) # {}
    /\ AliasTier(fnArg.registry, fnArg.source_name) # ExactTier(fnArg.registry, fnArg.source_name)
    /\ FoldTier(fnArg.registry, fnArg.source_name) # ExactTier(fnArg.registry, fnArg.source_name)
    /\ fnRet = Some(RegistryMapping("vim", "brew", "macvim", 800, "Registry mapping", <<>>))

MapperPositions ==
    {"idle", "registry", "heuristics", "patterns", "category", "validate", "decide", "done"}

\* C14: an item for which registry, heuristic rules, pattern matcher and category
\* matcher all produce nothing gets a result with no candidate and decision
\* MANUAL; the mapper raises nothing and the batch goes on to return a result
\* for every item.
C14_NoMatchIsManual ==
    op = "map" =>
        /\ pc \in MapperPositions
        /\ \A i \in 1..Len(results) :
               PreValidation(registry, heuristics, packages[i]) = <<>> =>
                   /\ results[i].source = packages[i]
                   /\ results[i].candidate = None
                   /\ results[i].decision = MANUAL
        /\ pc = "done" => Len(results) = Len(packages)

C14_Witness ==
    /\ op = "map" /\ pc = "done" /\ run = 1
    /\ Len(results) = 2
    /\ PreValidation(registry, heuristics, packages[1]) = <<>>
    /\ results[1].candidate = None
    /\ results[2].candidate # None

Unverifiable(c) == c.target_pm \notin {"brew", "cask"}

\* C15: when the brew command fails (error, timeout) or the check raises, every
\* brew or cask candidate is treated as one that does not exist -- the list
\* after validation is the list an empty Homebrew gives -- and the failure does
\* not leave map_packages: the batch returns a result for every item.
C15_CheckFailureIsAbsence ==
    (op = "map" /\ verify /\ cliFault # "none") =>
        /\ pc \in MapperPositions
        /\ pc = "decide" =>
               candidates = SelectSeq(PreValidation(registry, heuristics, package),
                                      Unverifiable)
        /\ \A i \in 1..Len(results) :
               results[i].candidate # None => Unverifiable(results[i].candidate[1])
        /\ pc = "done" => Len(results) = Len(packages)

C15_Witness ==
    /\ op = "map" /\ pc = "done" /\ verify /\ cliFault = "timeout"
    /\ Len(results) = 2
    /\ packages[1].source_name = "git"
    /\ find_mapping(registry, "git") # None
    /\ <<find_mapping(registry, "git")[1].target_pm,
         find_mapping(registry, "git")[1].target_name>> \in brewIndex
    /\ results[1].candidate = None

RECURSIVE TargetsOf(_)
TargetsOf(cands) ==
    IF cands = <<>> THEN <<>>
    ELSE << <<Head(cands).target_pm, Head(cands).target_name>> >> \o TargetsOf(Tail(cands))

\* C16: validation leaves a candidate whose target is neither brew nor cask as it
\* is and calls no existence check for it, in validate_brew_candidates and in the
\* mapper's validation step.
C16_OtherNamespacesUntouched ==
    /\ op = "validate" =>
           /\ \A i \in 1..Len(validated) : Unverifiable(vIn[i]) => validated[i] = vIn[i]
           /\ checks = TargetsOf(SelectSeq(SubSeq(vIn, 1, Len(validated)), Verifiable))
    /\ (op = "map" /\ pc = "decide" /\ verify) =>
           LET before == PreValidation(registry, heuristics, package) IN
           /\ SelectSeq(candidates, Unverifiable) = SelectSeq(before, Unverifiable)
           /\ checks = TargetsOf(SelectSeq(before, Verifiable))

C16_Witness ==
    /\ op = "map" /\ pc = "decide" /\ verify
    /\ \E i \in 1..Len(candidates) : candidates[i].target_pm = "pip"
    /\ Len(candidates) < Len(PreValidation(registry, heuristics, package))
    /\ checks # <<>>

Malformed(source) ==
    /\ source.exists
    /\ \/ source.doc.kind # "map"
       \/ /\ source.doc.kind = "map"
          /\ \E i \in 1..Len(source.doc.mappings) :
                 source.doc.mappings[i].raw.kind \notin {"dict", "str"}

\* C18: load_registry on an existing but malformed source fails with an error and
\* returns no registry, neither an empty nor a partially loaded one.
C18_MalformedSourceFails ==
    (op = "load" /\ pc # "idle" /\ Malformed(fnArg)) =>
        /\ fnRet.status # "ok"
        /\ pc # "done"

IsPrefix(s, t) == Len(s) <= Len(t) /\ s = SubSeq(t, 1, Len(s))

\* a stage of the generate command raises (the load stage also when the
\* registry file is missing or cannot be loaded)
StageRaises(stage) ==
    \/ fnArg.fault = stage
    \/ /\ stage = "load"
       /\ \/ ~fnArg.source.exists
          \/ load_registry(fnArg.source).status # "ok"

\* C19: the generate command enters its stages in the order mkdir, load, collect,
\* map, emit; a stage that raises ends the command with exit code 1 and no later
\* stage is entered; a registry that fails to load ends it before any package is
\* collected or mapped; exit code 0 means all five stages ran and none raised.
C19_StagesInOrderFailFast ==
    op = "generate" =>
        /\ IsPrefix(stagesRun, Stages)
        /\ \A k \in 1..(Len(stagesRun) - 1) : ~StageRaises(stagesRun[k])
        /\ (stagesRun # <<>> /\ StageRaises(stagesRun[Len(stagesRun)])) =>
               \/ pc = "exited" /\ exitCode = Some(1)
               \/ pc = "load" /\ stagesRun[Len(stagesRun)] = "load"
        /\ pc = "exited" => StageRaises(stagesRun[Len(stagesRun)])
        /\ exitCode # None => pc \in {"exited", "finished"}
        /\ pc = "finished" => (exitCode = Some(0) /\ stagesRun = Stages)
        /\ StageRaises("load") => (packages = <<>> /\ run = 0 /\ results = <<>>)
        /\ run # 0 => Len(stagesRun) >= 4

C19_Witness ==
    /\ op = "generate" /\ pc = "exited"
    /\ stagesRun = <<"mkdir", "load">>
    /\ fnArg.fault = "none"
    /\ fnArg.source.exists
    /\ load_registry(fnArg.source).status = "Exception"
    /\ exitCode = Some(1)

\* the positions of the rules that match a name
MatchingRules(rules, n) == {i \in 1..Len(rules) : RuleMatches(rules[i], n)}

\* C20: apply_heuristics returns one tuple for every rule that matches the name (a
\* literal rule only when pattern and name are equal), by descending confidence
\* and, among equal confidences, in rule order; it returns the empty list when no
\* rule matches.
C20_AllMatchesSortedStable ==
    (op = "heur" /\ pc = "done") =>
        LET rules == fnArg.heuristics
            n == fnArg.source_name
            S == MatchingRules(rules, n)
        IN  /\ Len(fnRet) = Cardinality(S)
            /\ \A i \in S : ~rules[i].is_regex => rules[i].pattern = n
            /\ \A i \in 1..Len(rules) :
                   (~rules[i].is_regex /\ rules[i].pattern = n) => i \in S
            /\ \E p \in [1..Len(fnRet) -> S] :
                   /\ \A k \in 1..Len(fnRet) : fnRet[k] = RuleMatch(rules[p[k]], n)
                   /\ \A k, l \in 1..Len(fnRet) :
                          k < l =>
                              \/ rules[p[k]].confidence > rules[p[l]].confidence
                              \/ /\ rules[p[k]].confidence = rules[p[l]].confidence
                                 /\ p[k] < p[l]

C20_Witness ==
    /\ op = "heur" /\ pc = "done"
    /\ Len(fnRet) = 3
    /\ fnRet[1].confidence = fnRet[2].confidence
    /\ fnRet[2].confidence = fnRet[3].confidence
    /\ fnRet[1].target_name # fnRet[3].target_name

\* the last result appended and the item it is for
LastResult == results[Len(results)]

\* C21: with verify enabled the decision of an item is the threshold decision of
\* the candidates that passed validation; a candidate that failed its check lends
\* its pre-validation confidence to nothing, so an item whose candidates all fail
\* is MANUAL however confident they were.
C21_DecisionAfterValidation ==
    (JustDecided /\ verify) =>
        LET before == PreValidation(registry, heuristics, LastResult.source)
            passed == SelectSeq(before, _validate_candidate)
        IN  /\ LastResult.decision = ExpectedDecision(passed)
            /\ passed = <<>> => LastResult.decision \notin {AUTO, VERIFY}

C21_Witness ==
    /\ JustDecided /\ verify /\ cliFault = "none"
    /\ LET before == PreValidation(registry, heuristics, LastResult.source) IN
       /\ before # <<>>
       /\ MaxConfidence(before) >= 900
       /\ \A i \in 1..Len(before) : ~_validate_candidate(before[i])
    /\ LastResult.decision = MANUAL

InfoSucceeded(r) == ~r.raised /\ r.exit_code = 0

InfoFailed(r) == ~r.raised /\ r.exit_code # 0

ExactLine(r, name) ==
    /\ ~r.raised
    /\ r.exit_code = 0
    /\ \E line \in r.stdout : Strip(line) = name

\* C22: the existence check is true exactly when info exits 0, or info exits
\* non-zero and search exits 0 with a line that, stripped, is the name; search is
\* run only after info has failed; exit code -1 from both gives false.
C22_InfoThenExactSearch ==
    (op = "exists" /\ pc = "done") =>
        /\ fnRet.value <=>
               \/ InfoSucceeded(fnArg.info)
               \/ InfoFailed(fnArg.info) /\ ExactLine(fnArg.search, fnArg.package_name)
        /\ fnRet.commands[1] = "info"
        /\ Len(fnRet.commands) = 2 <=> InfoFailed(fnArg.info)
        /\ Len(fnRet.commands) = 2 => fnRet.commands[2] = "search"
        /\ (fnArg.info.exit_code = -1 /\ fnArg.search.exit_code = -1) => ~fnRet.value

C22_Witness ==
    /\ op = "exists" /\ pc = "done"
    /\ fnArg.info = CommandResult(FALSE, 1, {})
    /\ fnArg.search = CommandResult(FALSE, 0, {"==> Formulae", "git", "git-lfs"})
    /\ fnRet.value
    /\ fnRet.commands = <<"info", "search">>

\* the result of an item as a function of the item, the registry, the rule set, the
\* verify flag and the existence check alone
MappedAlone(item) ==
    LET before == PreValidation(registry, heuristics, item)
        after == IF verify THEN SelectSeq(before, _validate_candidate) ELSE before
    IN  MappingResult(item, IF after = <<>> THEN None ELSE Some(after[1]),
                      ExpectedDecision(after))

\* C23: each item is mapped independently: the result at a position of the
\* returned list is the result that item gets on its own, whatever the other
\* items of the batch are and wherever the item stands; equal items get equal
\* results.
C23_ItemsMappedIndependently ==
    (op = "map" /\ pc = "done") =>
        /\ \A i \in 1..Len(results) : results[i] = MappedAlone(packages[i])
        /\ \A i, j \in 1..Len(results) : packages[i] = packages[j] => results[i] = results[j]

C23_Witness ==
    /\ op = "map" /\ pc = "done" /\ run = 1
    /\ Len(results) = 2
    /\ packages[1] # packages[2]
    /\ results[1].candidate # None
    /\ results[2].candidate = None
    /\ PreValidation(registry, heuristics, packages[2]) = <<>>

Distinct(seq) == \A i, j \in 1..Len(seq) : i # j => seq[i] # seq[j]

\* C24: the candidate list of an item holds at most one candidate per pair of
\* target namespace and target name, so with verify enabled no existence check
\* is made twice for an item.
C24_CandidatesDeduplicated ==
    (op = "map" /\ pc \in {"validate", "decide"}) =>
        /\ Distinct(TargetsOf(candidates))
        /\ Distinct(checks)

\* C25: when the pattern matcher or the category matcher raises for an item,
\* map_packages does not abort: the item gets a result built from the candidates
\* of the other sources and every item of the batch is mapped.
C25_MatcherFailureIsolated ==
    op = "map_raising" =>
        /\ pc \in MapperPositions
        /\ pc = "done" => Len(results) = Len(packages)

\* C26: a NormalizedItem is never changed after construction:
\* enrich_package_metadata leaves every field of the item passed in as it was, and
\* no step of map_packages changes an item of the batch.
C26_ItemsNeverChanged ==
    [][/\ op = "enrich" => fnArg' = fnArg
       /\ run >= 1 => packages' = packages]_vars

\* the recognized keywords and the target each is hand-mapped to
KeywordTarget ==
    [k \in {"postgres", "mysql", "sqlite", "redis", "git", "vim", "tmux", "htop", "curl",
            "wget", "jq", "ripgrep"} |->
        IF k = "postgres" THEN "postgresql" ELSE k]

KeywordsIn(name) == {k \in DOMAIN KeywordTarget : Contains(Lower(name), k)}

\* C27: apply_category_based_mapping yields one candidate for each recognized
\* keyword the lower-cased name contains, whatever the category argument is, and
\* the empty list only when the name contains none.
C27_OneCandidatePerKeyword ==
    (op = "category" /\ pc = "done") =>
        /\ Len(fnRet) = Cardinality(KeywordsIn(fnArg.source_name))
        /\ \A k \in KeywordsIn(fnArg.source_name) :
               \E i \in 1..Len(fnRet) :
                   fnRet[i].target_pm = "brew" /\ fnRet[i].target_name = KeywordTarget[k]
        /\ fnRet = <<>> <=> KeywordsIn(fnArg.source_name) = {}

\* C30: every candidate the pattern matcher produces for a non-empty source name
\* has a non-empty target name, and so has every candidate of the mapper's list
\* and of its results.
C30_TargetNamesNonEmpty ==
    /\ (op = "patterns" /\ pc = "done" /\ fnArg.source_name # "") =>
           \A i \in 1..Len(fnRet) : fnRet[i].target_name # ""
    /\ op \in MapperOps =>
           /\ \A i \in 1..Len(candidates) : candidates[i].target_name # ""
           /\ \A i \in 1..Len(results) :
                  results[i].candidate # None => results[i].candidate[1].target_name # ""

\* MANUAL < VERIFY < AUTO
Rank(decision) == IF decision = AUTO THEN 2 ELSE IF decision = VERIFY THEN 1 ELSE 0

\* the decision map_single_package takes for the item when verify is off
DecisionWithoutVerify(item) == ExpectedDecision(PreValidation(registry, heuristics, item))

AllChecksPass(item) ==
    LET before == PreValidation(registry, heuristics, item) IN
    \A i \in 1..Len(before) : Verifiable(before[i]) => _validate_candidate(before[i])

\* C28: verification never raises a decision.  Without verify the decision of an
\* item is the threshold decision of its candidate list; with verify, for the
\* same item, registry and Homebrew, it is at most that decision in the order
\* MANUAL < VERIFY < AUTO, and equal to it when every brew or cask candidate
\* passes its check.
C28_VerifyNeverRaises ==
    JustDecided =>
        LET without == DecisionWithoutVerify(LastResult.source) IN
        /\ ~verify => LastResult.decision = without
        /\ verify => Rank(LastResult.decision) <= Rank(without)
        /\ (verify /\ AllChecksPass(LastResult.source)) => LastResult.decision = without

C28_Witness ==
    /\ JustDecided /\ verify
    /\ ~AllChecksPass(LastResult.source)
    /\ DecisionWithoutVerify(LastResult.source) = AUTO
    /\ LastResult.decision = VERIFY

\* the existence check of the retained candidate was called while the item was
\* mapped
CheckedDuringMapping(c) == \A j \in 1..Len(ChecksCalled(c)) :
                               \E k \in 1..Len(checks) : checks[k] = ChecksCalled(c)[j]

\* C29: with verify enabled, a brew or cask candidate retained in a result is one
\* whose existence check was made during the mapping and returned true; a
\* candidate whose check returned false or raised is not in the list the decision
\* is taken from, so an AUTO or VERIFY decision is carried by a candidate that
\* passed.
C29_RetainedCandidateExists ==
    /\ (op = "map" /\ verify) =>
           \A i \in 1..Len(results) :
               (results[i].candidate # None /\ Verifiable(Retained(results[i]))) =>
                   _validate_candidate(Retained(results[i]))
    /\ (JustDecided /\ verify) =>
           /\ \A i \in 1..Len(candidates) : _validate_candidate(candidates[i])
           /\ (LastResult.candidate # None /\ Verifiable(Retained(LastResult))) =>
                  CheckedDuringMapping(Retained(LastResult))
           /\ LastResult.decision = AUTO =>
                  \E i \in 1..Len(candidates) : candidates[i].confidence >= ThresholdAuto
           /\ LastResult.decision = VERIFY =>
                  \E i \in 1..Len(candidates) : candidates[i].confidence >= ThresholdVerify

C29_Witness ==
    /\ JustDecided /\ verify /\ cliFault = "none"
    /\ LET before == PreValidation(registry, heuristics, LastResult.source) IN
       /\ Len(before) >= 2
       /\ Verifiable(before[1]) /\ ~_validate_candidate(before[1])
       /\ LastResult.candidate # None
       /\ Verifiable(Retained(LastResult))
       /\ Retained(LastResult) # before[1]

====
